---- MODULE Spec2Model ----
(***************************************************************************)
(* State-machine model of the completion menu of reedline,                 *)
(* src/src/menu/completion_menu.rs.  The menu is driven by three calls of  *)
(* the editor loop: menu_event (deliver an event), update_working_details  *)
(* (consume the pending event, then size the columns) and                  *)
(* replace_in_buffer (accept the selected candidate), plus the public      *)
(* update_values (re-query the completer).                                 *)
(*                                                                         *)
(* The line buffer, the completer and the painter belong to the editor:    *)
(* the menu borrows them for one call, so they are inputs of the calls.    *)
(* The variable last records, for the call just made, the inputs it read   *)
(* and what it returned or wrote.                                          *)
(*                                                                         *)
(* Rust integer arithmetic: a division by zero always panics; an overflow  *)
(* of +, - or * panics when the build has overflow checks (debug profile)  *)
(* and wraps when it has none (release profile).  overflow_checks is the   *)
(* profile of the build, panicked the panic message once one occurred.     *)
(*                                                                         *)
(* menu_string only reads the menu; it is an action of SpecMenu.  SpecGrid *)
(* is the specification of the cursor on the grid; it keeps the history    *)
(* variable trail: where the navigation event consumed last started from.  *)
(***************************************************************************)
EXTENDS Integers, Sequences, FiniteSets, TLC

VARIABLES
    active,           \* CompletionMenu.active
    default_details,  \* CompletionMenu.default_details
    working_details,  \* CompletionMenu.working_details
    values,           \* CompletionMenu.values : Vec<(Span, String)>
    col_pos,          \* CompletionMenu.col_pos
    row_pos,          \* CompletionMenu.row_pos
    event,            \* CompletionMenu.event : Option<MenuEvent>, <<>> is None
    overflow_checks,  \* build profile: TRUE panics on overflow, FALSE wraps
    panicked,         \* "none", or the message of the panic that ended the run
    last,             \* history: the call made by the last step, the inputs
                      \* it read and what it did with them
    trail             \* history kept by SpecGrid: the navigation event that
                      \* the last refresh consumed and the cursor and column
                      \* count it started from; <<>> otherwise

vars == <<active, default_details, working_details, values, col_pos, row_pos,
          event, overflow_checks, panicked, last, trail>>

-----------------------------------------------------------------------------
(* Bounds of the model *)

\* longest candidate list the completer returns
MaxValues == 4

\* largest column count given to with_columns
MaxColumns == 3

-----------------------------------------------------------------------------
(* Machine integers *)

\* u16 has 2^16 values (col_pos, row_pos, columns, screen width)
U16Modulus == 65536

\* usize is 64 bits wide; TLC integers are 32 bits wide, so the modulus of
\* usize is represented by 2^30, which is larger than every length, offset and
\* width of the model: a wrapped value is off by the same multiple everywhere
UsizeModulus == 1073741824

AsU16(x) == x % U16Modulus

Max(a, b) == IF a >= b THEN a ELSE b

Min(a, b) == IF a <= b THEN a ELSE b

\* u16::saturating_sub / usize::saturating_sub
SaturatingSub(a, b) == IF a >= b THEN a - b ELSE 0

\* usize `a - b` of a build without overflow checks
WrappingSub(a, b) == (a - b + UsizeModulus) % UsizeModulus

\* usize `a + b` of a build without overflow checks
WrappingAdd(a, b) == (a + b) % UsizeModulus

-----------------------------------------------------------------------------
(* Options, events, inputs *)

None == <<>>

Some(x) == <<x>>

NavigationTags == {"NextElement", "PreviousElement", "MoveUp", "MoveDown",
                   "MoveLeft", "MoveRight"}

PageTags == {"PreviousPage", "NextPage"}

\* the variants of MenuEvent matched by update_working_details
MenuEvents ==
    [tag : {"Activate", "Edit"}, updated : BOOLEAN]
    \cup [tag : {"Deactivate"} \cup NavigationTags \cup PageTags, updated : {FALSE}]

\* screen widths reported by the painter
ScreenWidths == {0, 2, 9}

\* lines the painter leaves to menu_string: one, two, and the smallest number
\* whose product with two columns does not fit u16
AvailableLines == {1, 2, 32768}

\* settings given to with_column_width
ColumnWidths == {None, Some(0), Some(3), Some(65537)}

\* settings given to with_columns: the smallest and the largest
ColumnCounts == {1, MaxColumns}

\* DefaultColumnDetails::default().col_padding
DefaultPadding == 2

\* texts of the candidates
Words == << <<"a">>, <<"l", "s", "t">> >>

\* line buffers the editor hands to the menu: a text of two lines with the
\* insertion point at its end or at its start, and a text of one byte
LineBuffers == { [text |-> <<"\n", "s">>, offset |-> 2],
                 [text |-> <<"\n", "s">>, offset |-> 0],
                 [text |-> <<"l">>, offset |-> 1] }

\* the answer of a completer with n candidates: the i-th replaces the text
\* from its first or second byte to its end by the words taken in turn
CandidateList(n, text) ==
    [i \in 1..n |->
        [span |-> [start |-> Min((i - 1) % 2, Len(text)), end |-> Len(text)],
         value |-> Words[((i - 1) % Len(Words)) + 1]]]

\* the answers of Completer::complete(text, offset)
Completions(text, offset) == { CandidateList(n, text) : n \in 0..MaxValues }

-----------------------------------------------------------------------------
(* Accessors of CompletionMenu *)

get_values == values

get_cols == Max(working_details.columns, 1)

get_rows ==
    LET rows == AsU16(Len(get_values)) \div get_cols
    IN  IF AsU16(Len(get_values)) % get_cols # 0 THEN rows + 1 ELSE rows

index == row_pos * get_cols + col_pos

\* get_value reading the last candidate when the index is past the end
get_value_clamped ==
    IF Len(get_values) = 0 THEN None
    ELSE Some(get_values[Min(index, Len(get_values) - 1) + 1])

get_value == IF index < Len(get_values) THEN Some(get_values[index + 1]) ELSE None

get_width == working_details.col_width

-----------------------------------------------------------------------------
(* Navigation: each operator is the cursor the method leaves, and the panic
   it raises, if any *)

Cursor(c, r) == [col |-> c, row |-> r, panic |-> "none"]

CursorPanic(msg) == [col |-> col_pos, row |-> row_pos, panic |-> msg]

reset_position == Cursor(0, 0)

\* the step to the next cell of the grid, occupied or not
move_next_any_cell ==
    LET col1 == col_pos + 1
        wrap_col == col1 >= get_cols
        row2 == IF wrap_col THEN row_pos + 1 ELSE row_pos
        col2 == IF wrap_col THEN 0 ELSE col1
        wrap_row == row2 >= get_rows
    IN  Cursor(IF wrap_row THEN 0 ELSE col2, IF wrap_row THEN 0 ELSE row2)

move_next ==
    LET col1 == col_pos + 1
        wrap_col == col1 >= get_cols
        row2 == IF wrap_col THEN row_pos + 1 ELSE row_pos
        col2 == IF wrap_col THEN 0 ELSE col1
        wrap_row == row2 >= get_rows
        new_row == IF wrap_row THEN 0 ELSE row2
        new_col == IF wrap_row THEN 0 ELSE col2
        position == new_row * get_cols + new_col
    IN  IF position >= AsU16(Len(get_values))
        THEN reset_position
        ELSE Cursor(new_col, new_row)

\* the step to the previous cell of the grid, occupied or not
move_previous_any_cell ==
    Cursor(IF col_pos >= 1 THEN col_pos - 1 ELSE SaturatingSub(get_cols, 1),
           IF col_pos >= 1 THEN row_pos
           ELSE IF row_pos >= 1 THEN row_pos - 1
           ELSE SaturatingSub(get_rows, 1))

move_previous ==
    LET new_col == IF col_pos >= 1 THEN col_pos - 1
                   ELSE SaturatingSub(get_cols, 1)
        new_row == IF col_pos >= 1 THEN row_pos
                   ELSE IF row_pos >= 1 THEN row_pos - 1
                   ELSE SaturatingSub(get_rows, 1)
        position == new_row * get_cols + new_col
    IN  IF position >= AsU16(Len(get_values))
        THEN Cursor(SaturatingSub(AsU16(Len(get_values)) % get_cols, 1),
                    SaturatingSub(get_rows, 1))
        ELSE Cursor(new_col, new_row)

\* the step up that wraps to the last row of the grid, occupied or not
move_up_any_cell ==
    IF row_pos >= 1
    THEN Cursor(col_pos, row_pos - 1)
    ELSE Cursor(col_pos, SaturatingSub(get_rows, 1))

move_up ==
    IF row_pos >= 1
    THEN Cursor(col_pos, row_pos - 1)
    ELSE LET new_row == SaturatingSub(get_rows, 1)
             idx == new_row * get_cols + col_pos
         IN  IF idx >= AsU16(Len(values))
             THEN Cursor(col_pos, SaturatingSub(new_row, 1))
             ELSE Cursor(col_pos, new_row)

move_down ==
    LET new_row == row_pos + 1
    IN  IF new_row >= get_rows
        THEN Cursor(col_pos, 0)
        ELSE LET idx == new_row * get_cols + col_pos
             IN  IF idx >= AsU16(Len(values))
                 THEN Cursor(col_pos, 0)
                 ELSE Cursor(col_pos, new_row)

\* the step to the left that wraps to the end of the row above
move_left_row_above ==
    IF col_pos >= 1
    THEN Cursor(col_pos - 1, row_pos)
    ELSE Cursor(SaturatingSub(get_cols, 1), SaturatingSub(row_pos, 1))

move_left ==
    IF col_pos >= 1
    THEN Cursor(col_pos - 1, row_pos)
    ELSE IF Len(values) = 0 /\ overflow_checks
    THEN CursorPanic("move_left: attempt to subtract with overflow")
    ELSE IF index = WrappingSub(Len(values), 1)
    THEN Cursor(0, row_pos)
    ELSE Cursor(SaturatingSub(get_cols, 1), row_pos)

\* the step to the right on the row, onto cells past the list too
move_right_any_cell ==
    IF col_pos + 1 >= get_cols
    THEN Cursor(0, row_pos)
    ELSE Cursor(col_pos + 1, row_pos)

move_right ==
    LET new_col == col_pos + 1
    IN  IF new_col >= get_cols
        THEN Cursor(0, row_pos)
        ELSE IF Len(values) = 0 /\ overflow_checks
        THEN CursorPanic("move_right: attempt to subtract with overflow")
        ELSE IF index + 1 > WrappingSub(Len(values), 1)
        THEN Cursor(0, row_pos)
        ELSE Cursor(new_col, row_pos)

-----------------------------------------------------------------------------
(* The collaborators: line buffer and completer *)

\* the buffer text handed to the completer as it is
ReplaceNewline_unchanged(text) == text

\* str::replace("\n", " ")
ReplaceNewline(text) ==
    [i \in 1..Len(text) |-> IF text[i] = "\n" THEN " " ELSE text[i]]

\* LineBuffer::replace(start..end, value), the range being inside the text
lb_replace(lb, start, end, value) ==
    [lb EXCEPT !.text = SubSeq(lb.text, 1, start) \o value
                        \o SubSeq(lb.text, end + 1, Len(lb.text))]

\* LineBuffer::set_insertion_point(offset)
lb_set_insertion_point(lb, offset) == [lb EXCEPT !.offset = offset]

\* the arguments update_values hands to Completer::complete for the buffer lb
complete_args(lb) == [text |-> ReplaceNewline(lb.text), offset |-> lb.offset]

\* the record of a call that read the buffer before and left it as after
Buffer(before, after) == Some([before |-> before, after |-> after])

\* the record of the one call a step makes
Call(op) == [op |-> op, event |-> None, dropped |-> FALSE, completer |-> None,
             screen_width |-> None, line_buffer |-> None, menu |-> None]

-----------------------------------------------------------------------------
(* Sizing of the working details, lines 407-441 *)

RECURSIVE max_width_of(_, _)
\* the fold over the values: the largest string.len() + working col_padding
max_width_of(vals, padding) ==
    IF vals = <<>> THEN 0
    ELSE LET acc == max_width_of(SubSeq(vals, 1, Len(vals) - 1), padding)
             str_len == Len(vals[Len(vals)].value) + padding
         IN  IF str_len > acc THEN str_len ELSE acc

\* the working details and the panic that sizing leaves for the values vals
\* on a screen of width screen_width
sizing(vals, screen_width) ==
    LET max_width == max_width_of(vals, working_details.col_padding)
        fixed == default_details.col_width
    IN  IF fixed = None /\ default_details.columns = 0
        THEN [details |-> working_details,
              panic |-> "sizing: attempt to divide by zero"]
        ELSE
        LET default_width == IF fixed # None THEN fixed[1]
                             ELSE screen_width \div default_details.columns
            col_width == IF max_width > default_width THEN max_width
                         ELSE default_width
            with_width == [working_details EXCEPT !.col_width = col_width]
        IN  IF AsU16(col_width) = 0
            THEN [details |-> with_width,
                  panic |-> "sizing: attempt to divide by zero"]
            ELSE
            LET possible_cols == screen_width \div AsU16(col_width)
                columns == IF possible_cols > default_details.columns
                           THEN Max(default_details.columns, 1)
                           ELSE possible_cols
            IN  [details |-> [with_width EXCEPT !.columns = columns],
                 panic |-> "none"]

-----------------------------------------------------------------------------
(* The operations of the Menu trait *)

\* CompletionMenu::default() followed by the builders with_columns and
\* with_column_width, for the settings and build profiles given
Configured(columns, col_widths, profiles) ==
    /\ active = FALSE
    /\ default_details \in [columns : columns, col_width : col_widths,
                            col_padding : {DefaultPadding}]
    /\ working_details = [columns |-> 0, col_width |-> 0, col_padding |-> 0]
    /\ values = <<>>
    /\ col_pos = 0
    /\ row_pos = 0
    /\ event = None
    /\ overflow_checks \in profiles
    /\ panicked = "none"
    /\ last = Call("new")
    /\ trail = None

\* the activation flag left to the refresh that consumes Activate
active_after_event_deferred(e) == active

\* the activation flag after menu_event(e): `if let Activate(_) = event`
active_after_event(e) == IF e.tag = "Activate" THEN TRUE ELSE active

\* the slot keeping an event that is still pending
event_after_event_keep_pending(e) == IF event = None THEN Some(e) ELSE event

\* the slot after menu_event(e): `self.event = Some(event)`
event_after_event(e) == Some(e)

\* menu_event resetting the cursor when it is handed Activate
menu_event_resetting(e) ==
    /\ panicked = "none"
    /\ active' = active_after_event(e)
    /\ event' = event_after_event(e)
    /\ col_pos' = IF e.tag = "Activate" THEN reset_position.col ELSE col_pos
    /\ row_pos' = IF e.tag = "Activate" THEN reset_position.row ELSE row_pos
    /\ last' = [Call("menu_event") EXCEPT
                   !.event = Some(e),
                   !.dropped = (event # None /\ event # Some(e))]
    /\ UNCHANGED <<default_details, working_details, values,
                   overflow_checks, panicked>>

\* menu_event(event)
menu_event(e) ==
    /\ panicked = "none"
    /\ active' = active_after_event(e)
    /\ event' = event_after_event(e)
    /\ last' = [Call("menu_event") EXCEPT
                   !.event = Some(e),
                   !.dropped = (event # None /\ event # Some(e))]
    /\ UNCHANGED <<default_details, working_details, values, col_pos, row_pos,
                   overflow_checks, panicked>>

\* update_values(line_buffer, history, completer) on the buffer lb, the
\* completer answering ret
update_values(lb, ret) ==
    /\ panicked = "none"
    /\ values' = ret
    /\ col_pos' = reset_position.col
    /\ row_pos' = reset_position.row
    /\ last' = [Call("update_values") EXCEPT
                   !.completer = Some([args |-> complete_args(lb), ret |-> ret]),
                   !.line_buffer = Buffer(lb, lb)]
    /\ UNCHANGED <<active, default_details, working_details, event,
                   overflow_checks, panicked>>

\* a page arm that steps to the next candidate
page_event_next(keep) == [keep EXCEPT !.cursor = move_next]

\* the arm of PreviousPage and NextPage, lines 402-404: an empty block
page_event(keep) == keep

\* the match on the event taken from the slot, lines 379-405: the activation
\* flag, the values, the cursor, the completer call and the use of the buffer
\* it leaves
consume(e, lb, ret) ==
    LET keep == [active |-> active, values |-> values,
                 cursor |-> Cursor(col_pos, row_pos), completer |-> None,
                 line_buffer |-> None]
        requery == [keep EXCEPT !.values = ret,
                                !.cursor = reset_position,
                                !.completer = Some([args |-> complete_args(lb),
                                                    ret |-> ret]),
                                !.line_buffer = Buffer(lb, lb)]
    IN  CASE e.tag = "Activate" ->
                IF ~e.updated THEN [requery EXCEPT !.active = TRUE]
                ELSE [keep EXCEPT !.active = TRUE, !.cursor = reset_position]
          [] e.tag = "Deactivate" -> [keep EXCEPT !.active = FALSE]
          [] e.tag = "Edit" ->
                IF ~e.updated THEN requery
                ELSE [keep EXCEPT !.cursor = reset_position]
          [] e.tag = "NextElement" -> [keep EXCEPT !.cursor = move_next]
          [] e.tag = "PreviousElement" -> [keep EXCEPT !.cursor = move_previous]
          [] e.tag = "MoveUp" -> [keep EXCEPT !.cursor = move_up]
          [] e.tag = "MoveDown" -> [keep EXCEPT !.cursor = move_down]
          [] e.tag = "MoveLeft" -> [keep EXCEPT !.cursor = move_left]
          [] e.tag = "MoveRight" -> [keep EXCEPT !.cursor = move_right]
          [] e.tag \in PageTags -> page_event(keep)

\* the slot read without being emptied
event_after_take_kept == event

\* the slot after `self.event.take()`
event_after_take == None

\* update_working_details(line_buffer, history, completer, painter) on the
\* buffer lb, the painter reporting screen_width and the completer, if asked,
\* answering ret
update_working_details(lb, screen_width, ret) ==
    /\ panicked = "none"
    /\ IF event = None
       THEN /\ last' = [Call("update_working_details") EXCEPT
                           !.screen_width = Some(screen_width)]
            /\ event' = event_after_take
            /\ UNCHANGED <<active, default_details, working_details, values,
                           col_pos, row_pos, overflow_checks, panicked>>
       ELSE LET e == event[1]
                after == consume(e, lb, ret)
                sized == sizing(after.values, screen_width)
            IN  /\ event' = event_after_take
                /\ active' = after.active
                /\ values' = after.values
                /\ col_pos' = after.cursor.col
                /\ row_pos' = after.cursor.row
                /\ last' = [Call("update_working_details") EXCEPT
                               !.event = Some(e),
                               !.dropped = (last.op = "menu_event"
                                            /\ last.dropped),
                               !.completer = after.completer,
                               !.screen_width = Some(screen_width),
                               !.line_buffer = after.line_buffer]
                /\ IF after.cursor.panic # "none"
                   THEN /\ panicked' = after.cursor.panic
                        /\ UNCHANGED working_details
                   ELSE /\ panicked' = sized.panic
                        /\ working_details' = sized.details
                /\ UNCHANGED <<default_details, overflow_checks>>

\* what replace_in_buffer leaves of the buffer lb, and the panic it raises
replaced(lb) ==
    IF get_value = None
    THEN [line_buffer |-> lb, panic |-> "none"]
    ELSE LET span == get_value[1].span
             value == get_value[1].value
         IN  IF (span.end < span.start
                    \/ Len(value) < WrappingSub(span.end, span.start))
                /\ overflow_checks
             THEN [line_buffer |-> lb,
                   panic |-> "replace_in_buffer: attempt to subtract with overflow"]
             ELSE
             LET diff == WrappingSub(Len(value),
                                     WrappingSub(span.end, span.start))
                 offset == WrappingAdd(lb.offset, diff)
             IN  IF span.start > span.end \/ span.end > Len(lb.text)
                 THEN [line_buffer |-> lb,
                       panic |-> "line_buffer.replace: range out of bounds"]
                 ELSE [line_buffer |->
                           lb_set_insertion_point(
                               lb_replace(lb, span.start, span.end, value),
                               offset),
                       panic |-> "none"]

\* replace_in_buffer(line_buffer) on the buffer lb
replace_in_buffer(lb) ==
    /\ panicked = "none"
    /\ panicked' = replaced(lb).panic
    /\ last' = [Call("replace_in_buffer") EXCEPT
                   !.line_buffer = Buffer(lb, replaced(lb).line_buffer)]
    /\ UNCHANGED <<active, default_details, working_details, values, col_pos,
                   row_pos, event, overflow_checks>>

-----------------------------------------------------------------------------
(* Rendering, lines 251-324 and 470-502.  A rendered string is kept as the  *)
(* pieces that format! puts together.                                       *)

\* str::to_uppercase on the letters of Words
ToUppercase(line) ==
    [i \in 1..Len(line) |->
        CASE line[i] = "a" -> "A"
          [] line[i] = "l" -> "L"
          [] line[i] = "s" -> "S"
          [] line[i] = "t" -> "T"
          [] OTHER -> line[i]]

\* no_records_msg(use_ansi_coloring)
no_records_msg(use_ansi_coloring) ==
    [style |-> IF use_ansi_coloring THEN "selected_text_style" ELSE "",
     text |-> <<"NO RECORDS FOUND">>, pad |-> 0, end_of_line |-> ""]

\* end_of_line(column)
end_of_line(column) ==
    IF column = SaturatingSub(get_cols, 1) THEN "\r\n" ELSE ""

\* text_style(index)
text_style(idx) ==
    IF idx = index THEN "selected_text_style" ELSE "text_style"

\* create_string(line, index, column, empty_space, use_ansi_coloring)
create_string(line, idx, column, empty_space, use_ansi_coloring) ==
    IF use_ansi_coloring
    THEN [style |-> text_style(idx), text |-> line, pad |-> empty_space,
          end_of_line |-> end_of_line(column)]
    ELSE LET line_str == IF idx = index THEN <<">">> \o ToUppercase(line)
                         ELSE line
         IN  [style |-> "", text |-> line_str,
              pad |-> SaturatingSub(get_width, Len(line_str)),
              end_of_line |-> end_of_line(column)]

\* what menu_string(available_lines, use_ansi_coloring) returns: the message
\* for an empty list, or the cells in the order printed, each with the list
\* index it was given; and the panic it raises
rendered(available_lines, use_ansi_coloring) ==
    IF Len(get_values) = 0
    THEN [message |-> Some(no_records_msg(use_ansi_coloring)), cells |-> <<>>,
          panic |-> "none"]
    ELSE
    LET skip_lines == SaturatingSub(row_pos, available_lines) + 1
        skip_values == IF row_pos >= available_lines
                       THEN AsU16(skip_lines * get_cols)
                       ELSE 0
        available_values == AsU16(available_lines * get_cols)
        taken == Min(available_values,
                     SaturatingSub(Len(get_values), skip_values))
    IN  IF overflow_checks
           /\ \/ (row_pos >= available_lines
                     /\ skip_lines * get_cols >= U16Modulus)
              \/ available_lines * get_cols >= U16Modulus
        THEN [message |-> None, cells |-> <<>>,
              panic |-> "menu_string: attempt to multiply with overflow"]
        ELSE [message |-> None,
              cells |->
                 [k \in 1..taken |->
                     LET idx == (k - 1) + skip_values
                         line == get_values[idx + 1].value
                         column == AsU16(idx) % get_cols
                         empty_space == SaturatingSub(get_width, Len(line))
                     IN  [index |-> idx,
                          string |-> create_string(line, idx, column,
                                                   empty_space,
                                                   use_ansi_coloring)]],
              panic |-> "none"]

\* menu_string(available_lines, use_ansi_coloring)
menu_string(available_lines, use_ansi_coloring) ==
    /\ panicked = "none"
    /\ panicked' = rendered(available_lines, use_ansi_coloring).panic
    /\ last' = [Call("menu_string") EXCEPT
                   !.menu = Some([available_lines |-> available_lines,
                                  use_ansi_coloring |-> use_ansi_coloring,
                                  string |-> rendered(available_lines,
                                                      use_ansi_coloring)])]
    /\ UNCHANGED <<active, default_details, working_details, values, col_pos,
                   row_pos, event, overflow_checks>>

\* whether update_working_details asks the completer: the slot holds
\* Activate(false) or Edit(false)
requeries ==
    /\ event # None
    /\ event[1].tag \in {"Activate", "Edit"}
    /\ ~event[1].updated

\* update_working_details on a screen of width screen_width, for every buffer
\* and every answer of the completer when it is asked
refresh(screen_width) ==
    IF requeries
    THEN \E lb \in LineBuffers :
            \E ret \in Completions(complete_args(lb).text,
                                   complete_args(lb).offset) :
               update_working_details(lb, screen_width, ret)
    ELSE update_working_details(CHOOSE lb \in LineBuffers : TRUE,
                                screen_width, <<>>)

Next ==
    \/ \E e \in MenuEvents : menu_event(e) /\ UNCHANGED trail
    \/ \E lb \in LineBuffers :
          \E ret \in Completions(complete_args(lb).text, complete_args(lb).offset) :
             update_values(lb, ret) /\ UNCHANGED trail
    \/ \E screen_width \in ScreenWidths :
          refresh(screen_width) /\ UNCHANGED trail
    \/ \E lb \in LineBuffers : replace_in_buffer(lb) /\ UNCHANGED trail

\* the menu built with with_columns(MaxColumns) and no fixed column width,
\* under both build profiles
Init == Configured({MaxColumns}, {None}, BOOLEAN)

Spec == Init /\ [][Next]_vars

\* every setting of with_columns and with_column_width, in a build without
\* overflow checks
InitLayout == Configured(ColumnCounts, ColumnWidths, {FALSE})

SpecLayout == InitLayout /\ [][Next]_vars

\* the events that open the menu and move the cursor on the grid
GridEvents == {e \in MenuEvents : e.tag \in {"Activate"} \cup NavigationTags}

\* the trail a refresh leaves: the navigation event it takes from the slot,
\* the cursor it starts from and the column count then in use
trail_after_refresh ==
    IF event # None /\ event[1].tag \in NavigationTags
    THEN Some([tag |-> event[1].tag, col |-> col_pos, row |-> row_pos,
               cols |-> get_cols])
    ELSE None

\* the cursor on the grid: activation, navigation events and refreshes on
\* screens of every width, with the trail of the navigation
NextGrid ==
    \/ \E e \in GridEvents : menu_event(e) /\ UNCHANGED trail
    \/ \E screen_width \in ScreenWidths :
          refresh(screen_width) /\ trail' = trail_after_refresh

SpecGrid == Init /\ [][NextGrid]_vars

\* the menu as the painter sees it: activation, navigation events, refreshes
\* on screens of every width, and menu_string for every number of lines
NextMenu ==
    \/ \E e \in GridEvents : menu_event(e) /\ UNCHANGED trail
    \/ \E screen_width \in ScreenWidths :
          refresh(screen_width) /\ UNCHANGED trail
    \/ \E available_lines \in AvailableLines :
          \E use_ansi_coloring \in BOOLEAN :
             menu_string(available_lines, use_ansi_coloring)
             /\ UNCHANGED trail

SpecMenu == Init /\ [][NextMenu]_vars

-----------------------------------------------------------------------------
(* Steps, named by the history of the step just taken *)

\* the last step was an update_working_details that consumed an event
Consumed == last.op = "update_working_details" /\ last.event # None

\* the last step was an update_working_details that consumed the event tag
ConsumedTag(tags) == Consumed /\ last.event[1].tag \in tags

\* the panics raised by the navigation methods
NavigationPanics == {"move_left: attempt to subtract with overflow",
                     "move_right: attempt to subtract with overflow"}

-----------------------------------------------------------------------------
(* C1 *)

\* C1: with a non-empty candidate list and a column count that the refresh
\* leaves as it was, a navigation event consumed while the cursor is on a
\* candidate (col < cols, index < n: the cells that navigation from (0,0)
\* visits) leaves the cursor on a candidate: 0 <= index < n.
C1_CursorOnCandidate ==
    [][ ( /\ ConsumedTag(NavigationTags)'
          /\ Len(values) >= 1
          /\ col_pos < get_cols
          /\ index < Len(values)
          /\ get_cols' = get_cols )
        => index' < Len(values') ]_vars

-----------------------------------------------------------------------------
(* C2 *)

\* C2: with a default column count >= 1, the sizing step of
\* update_working_details never fails: no division by zero for any screen
\* width, candidate list and fixed column width.
C2_SizingNeverFails ==
    default_details.columns >= 1
        => panicked # "sizing: attempt to divide by zero"

-----------------------------------------------------------------------------
(* C3 *)

\* C3: with an empty candidate list, consuming a navigation event never fails
\* on the subtraction n - 1 and leaves the cursor at (0,0).
C3_EmptyListNavigation ==
    (ConsumedTag(NavigationTags) /\ Len(values) = 0)
        => /\ panicked \notin NavigationPanics
           /\ col_pos = 0
           /\ row_pos = 0

-----------------------------------------------------------------------------
(* C4 *)

\* C4: replace_in_buffer with a candidate (span, value) at the cursor index,
\* span.start <= span.end inside the buffer, does not fail, replaces the
\* buffer text of the span by the value and sets the insertion point to
\* offset + len(value) - (span.end - span.start), also when the value is
\* shorter than the span.  (Stated for an insertion point at or after the
\* span, where that sum is not negative.)
C4_ReplaceInBuffer ==
    ( /\ last.op = "replace_in_buffer"
      /\ index < Len(values)
      /\ values[index + 1].span.start <= values[index + 1].span.end
      /\ values[index + 1].span.end <= Len(last.line_buffer[1].before.text)
      /\ values[index + 1].span.end <= last.line_buffer[1].before.offset )
    => LET span == values[index + 1].span
           value == values[index + 1].value
           before == last.line_buffer[1].before
           after == last.line_buffer[1].after
       IN  /\ panicked = "none"
           /\ after.text = SubSeq(before.text, 1, span.start) \o value
                           \o SubSeq(before.text, span.end + 1, Len(before.text))
           /\ after.offset =
                 before.offset + Len(value) - (span.end - span.start)

-----------------------------------------------------------------------------
(* C5 *)

\* C5: replace_in_buffer with no candidate at the cursor index (the list is
\* empty, or the index is past its end) changes nothing: not the buffer text,
\* the insertion point, the cursor, the candidates, the activation flag or
\* the pending event, and it does not fail.
C5_ReplaceWithoutCandidate ==
    [][ (last'.op = "replace_in_buffer" /\ index >= Len(values))
        => /\ last'.line_buffer[1].after = last'.line_buffer[1].before
           /\ UNCHANGED <<col_pos, row_pos, values, active, event>>
           /\ panicked' = "none" ]_vars

\* replace_in_buffer was called with no candidate at the cursor index
C5_Witness ==
    /\ last.op = "replace_in_buffer"
    /\ index >= Len(values)
    /\ panicked = "none"

-----------------------------------------------------------------------------
(* C6 *)

\* C6: the slot holds the last delivered event only.  A delivery leaves
\* exactly the delivered event in the slot, whatever was pending, and applies
\* nothing to the cursor or the candidates; the refresh that follows consumes
\* that event, applies its transition alone and leaves the slot empty, so the
\* replaced event is never applied.
C6_LastEventWins ==
    [][ /\ last'.op = "menu_event"
            => /\ event' = last'.event
               /\ UNCHANGED <<col_pos, row_pos, values>>
        /\ (last.op = "menu_event" /\ last'.op = "update_working_details")
            => LET lb == IF last'.line_buffer = None
                         THEN [text |-> <<>>, offset |-> 0]
                         ELSE last'.line_buffer[1].before
                   after == consume(last.event[1], lb, values')
               IN  /\ last'.event = last.event
                   /\ event' = None
                   /\ active' = after.active
                   /\ values' = after.values
                   /\ col_pos' = after.cursor.col
                   /\ row_pos' = after.cursor.row
      ]_vars

\* a refresh consumed an event that had replaced a different, unconsumed one
C6_Witness ==
    /\ Consumed
    /\ last.dropped
    /\ event = None

-----------------------------------------------------------------------------
(* C7 *)

\* C7: update_working_details leaves the slot empty, and called while the slot
\* is empty it changes nothing, whatever the screen width: cursor, candidates,
\* activation flag and working details are unchanged and the completer is not
\* called.
C7_RefreshTakesEvent ==
    [][ last'.op = "update_working_details"
        => /\ event' = None
           /\ event = None
                => /\ UNCHANGED <<col_pos, row_pos, values, active,
                                  working_details, panicked>>
                   /\ last'.completer = None
                   /\ last'.line_buffer = None
                   /\ last'.event = None ]_vars

\* a refresh ran on an empty slot with a screen width on which the sizing
\* would have given another column count
C7_Witness ==
    /\ last.op = "update_working_details"
    /\ last.event = None
    /\ sizing(values, last.screen_width[1]).panic = "none"
    /\ sizing(values, last.screen_width[1]).details.columns
          # working_details.columns

-----------------------------------------------------------------------------
(* C8 *)

\* C8: a refresh that consumes Activate(u) or Edit(u) leaves the cursor at
\* (0,0).  If u is false the completer is called once, with the buffer text
\* in which each line break is one space and with the buffer's offset, and
\* the candidates become the list it returned; if u is true the completer is
\* not called and the candidates are unchanged.
C8_ActivateEditRequery ==
    [][ ( /\ last'.op = "update_working_details"
          /\ event # None
          /\ event[1].tag \in {"Activate", "Edit"} )
        => /\ col_pos' = 0
           /\ row_pos' = 0
           /\ IF ~event[1].updated
              THEN /\ last'.completer # None
                   /\ last'.line_buffer # None
                   /\ LET call == last'.completer[1]
                          buffer == last'.line_buffer[1].before
                      IN  /\ Len(call.args.text) = Len(buffer.text)
                          /\ \A i \in 1..Len(buffer.text) :
                                call.args.text[i] =
                                   IF buffer.text[i] = "\n" THEN " "
                                   ELSE buffer.text[i]
                          /\ call.args.offset = buffer.offset
                          /\ last'.line_buffer[1].after = buffer
                          /\ values' = call.ret
              ELSE /\ last'.completer = None
                   /\ values' = values ]_vars

\* a refresh consumed Activate(false) on a buffer with a line break and the
\* completer's answer became the candidate list
C8_Witness ==
    /\ ConsumedTag({"Activate"})
    /\ ~last.event[1].updated
    /\ last.line_buffer # None
    /\ \E i \in 1..Len(last.line_buffer[1].before.text) :
          last.line_buffer[1].before.text[i] = "\n"
    /\ last.completer # None
    /\ Len(values) >= 1
    /\ col_pos = 0
    /\ row_pos = 0

-----------------------------------------------------------------------------
(* C9 *)

\* C9: delivering Activate sets the activation flag at once; the flag falls
\* only when a refresh consumes Deactivate; no other delivery or consumption
\* changes it.
C9_ActivationFlag ==
    [][ /\ (last'.op = "menu_event" /\ last'.event[1].tag = "Activate")
            => active'
        /\ (active /\ ~active')
            => ConsumedTag({"Deactivate"})'
        /\ (~active /\ active')
            => (last'.op = "menu_event" /\ last'.event[1].tag = "Activate")
      ]_vars

\* Activate was delivered to an inactive menu and is not yet consumed
C9_Witness ==
    /\ last.op = "menu_event"
    /\ last.event[1].tag = "Activate"
    /\ event = last.event
    /\ active
    /\ values = <<>>

-----------------------------------------------------------------------------
(* C10 *)

\* C10: after a refresh that consumed an event and completed, with default
\* columns >= 1, working columns = min(screen_width div working width,
\* default columns) <= default columns, and the column count in use,
\* max(working columns, 1), is >= 1.
C10_WorkingColumns ==
    /\ get_cols >= 1
    /\ (Consumed /\ panicked = "none" /\ default_details.columns >= 1)
        => /\ working_details.columns =
                 Min(last.screen_width[1] \div working_details.col_width,
                     default_details.columns)
           /\ working_details.columns <= default_details.columns

-----------------------------------------------------------------------------
(* C11 *)

\* C11: after a refresh that consumed an event and completed, the working
\* column width is max(max_width, default_width), max_width being the largest
\* candidate length plus the configured column padding and default_width the
\* fixed width or, without one, screen_width div default columns; and the
\* working padding is the configured padding.
C11_WorkingWidth ==
    (Consumed /\ panicked = "none")
        => /\ working_details.col_width =
                 Max(max_width_of(values, default_details.col_padding),
                     IF default_details.col_width # None
                     THEN default_details.col_width[1]
                     ELSE last.screen_width[1] \div default_details.columns)
           /\ working_details.col_padding = default_details.col_padding

-----------------------------------------------------------------------------
(* C12 *)

\* the rendered cell is marked as the selected one
MarkedSelected(cell, use_ansi_coloring) ==
    IF use_ansi_coloring
    THEN cell.string.style = "selected_text_style"
    ELSE Len(cell.string.text) >= 1 /\ Head(cell.string.text) = ">"

\* C12: menu_string with available lines >= 1, a non-empty list and a cursor
\* index < n returns a run of at most available_lines * cols candidates in
\* list order that starts at candidate skip_rows * cols (skip_rows = row -
\* available_lines + 1 if row >= available_lines, else 0); the run contains
\* the candidate at the cursor index, exactly one cell is marked selected, and
\* the row terminator follows exactly the cells with index mod cols = cols - 1.
C12_MenuString ==
    ( /\ last.op = "menu_string"
      /\ last.menu[1].available_lines >= 1
      /\ Len(values) >= 1
      /\ index < Len(values) )
    => LET available_lines == last.menu[1].available_lines
           ansi == last.menu[1].use_ansi_coloring
           cells == last.menu[1].string.cells
           skip_rows == IF row_pos >= available_lines
                        THEN row_pos - available_lines + 1
                        ELSE 0
       IN  /\ panicked = "none"
           /\ last.menu[1].string.message = None
           /\ Len(cells) <= available_lines * get_cols
           /\ \A k \in 1..Len(cells) :
                 /\ cells[k].index = skip_rows * get_cols + (k - 1)
                 /\ cells[k].index < Len(values)
                 /\ cells[k].string.text \in
                       {values[cells[k].index + 1].value,
                        <<">">> \o ToUppercase(values[cells[k].index + 1].value)}
                 /\ (cells[k].string.end_of_line = "\r\n")
                       <=> (cells[k].index % get_cols = get_cols - 1)
           /\ \E k \in 1..Len(cells) : cells[k].index = index
           /\ Cardinality({k \in 1..Len(cells) :
                              MarkedSelected(cells[k], ansi)}) = 1

-----------------------------------------------------------------------------
(* The trail of SpecGrid *)

\* the last refresh consumed a navigation event of tags that started on an
\* occupied cell of the grid (col < cols, index < n), and the column count is
\* the one the event started with
Travelled(tags) ==
    /\ trail # None
    /\ trail[1].tag \in tags
    /\ Len(values) >= 1
    /\ trail[1].col < trail[1].cols
    /\ trail[1].row * trail[1].cols + trail[1].col < Len(values)
    /\ get_cols = trail[1].cols

\* the list index of the cell the trail started from
trail_index == trail[1].row * trail[1].cols + trail[1].col

-----------------------------------------------------------------------------
(* C13 *)

\* C13: with the column count fixed and n >= 1 candidates, a NextElement
\* consumed on the occupied cell of index i leaves the cursor on the cell of
\* index (i + 1) mod n, at row index div cols and column index mod cols; so k
\* NextElement events from (0,0), 0 <= k < n, lead to index k and the n-th
\* leads back to (0,0).
C13_NextElement ==
    Travelled({"NextElement"})
        => /\ index = (trail_index + 1) % Len(values)
           /\ row_pos = index \div get_cols
           /\ col_pos = index % get_cols

\* the n-th NextElement: from the last candidate, in a last row that is only
\* partly filled, back to (0,0)
C13_Witness ==
    /\ Travelled({"NextElement"})
    /\ Len(values) >= 3
    /\ Len(values) % get_cols # 0
    /\ trail_index = Len(values) - 1
    /\ col_pos = 0
    /\ row_pos = 0

-----------------------------------------------------------------------------
(* C14 *)

\* C14: with the column count and the candidates fixed, MoveRight consumed
\* after a MoveLeft that started on an occupied cell with col >= 1 puts the
\* cursor back on that cell; and MoveRight consumed on the last occupied cell
\* (index n - 1) sets the column to 0 and keeps the row.
C14_LeftThenRight ==
    [][ /\ ( /\ Travelled({"MoveLeft"})
             /\ trail[1].col >= 1
             /\ ConsumedTag({"MoveRight"})'
             /\ get_cols' = get_cols )
           => /\ col_pos' = trail[1].col
              /\ row_pos' = trail[1].row
        /\ ( /\ ConsumedTag({"MoveRight"})'
             /\ Len(values) >= 1
             /\ col_pos < get_cols
             /\ index = Len(values) - 1 )
           => /\ col_pos' = 0
              /\ row_pos' = row_pos
      ]_vars

\* MoveLeft was consumed on the last occupied cell, in a column >= 1 of a
\* last row that is partly filled, and MoveRight is in the slot
C14_Witness ==
    /\ Travelled({"MoveLeft"})
    /\ trail[1].col >= 1
    /\ trail_index = Len(values) - 1
    /\ Len(values) % get_cols # 0
    /\ col_pos = trail[1].col - 1
    /\ row_pos = trail[1].row
    /\ event # None
    /\ event[1].tag = "MoveRight"

-----------------------------------------------------------------------------
(* C15 *)

\* C15: in every reachable state with a non-empty candidate list, also when
\* the screen width and with it the working column count changes between
\* refreshes without a re-query, the cursor is on a cell of the current grid:
\* col < cols and row < rows.
C15_CursorInGrid ==
    Len(values) >= 1
        => /\ col_pos < get_cols
           /\ row_pos < get_rows

-----------------------------------------------------------------------------
(* C16 *)

\* C16: for every cursor position and every candidate list, consuming
\* MoveLeft or MoveRight leaves the cursor row as it was, and consuming MoveUp
\* or MoveDown leaves the cursor column as it was.
C16_Orthogonal ==
    [][ /\ ConsumedTag({"MoveLeft", "MoveRight"})' => row_pos' = row_pos
        /\ ConsumedTag({"MoveUp", "MoveDown"})' => col_pos' = col_pos
      ]_vars

\* MoveLeft was consumed on the first row of a grid of several rows and
\* columns, and the cursor is on the last column of that row
C16_Witness ==
    /\ ConsumedTag({"MoveLeft"})
    /\ panicked = "none"
    /\ get_rows >= 2
    /\ get_cols >= 2
    /\ row_pos = 0
    /\ col_pos = get_cols - 1
    /\ index < Len(values)

-----------------------------------------------------------------------------
(* C17 *)

\* C17: a refresh that consumes NextPage or PreviousPage leaves the cursor,
\* the candidate list and the activation flag as they were and does not call
\* the completer; it empties the slot and computes the working layout anew
\* for the screen width of the call.
C17_PageEvents ==
    [][ ConsumedTag(PageTags)'
        => /\ UNCHANGED <<col_pos, row_pos, values, active>>
           /\ last'.completer = None
           /\ last'.line_buffer = None
           /\ event' = None
           /\ working_details' = sizing(values, last'.screen_width[1]).details
           /\ panicked' = sizing(values, last'.screen_width[1]).panic
      ]_vars

\* NextPage or PreviousPage was consumed by the active menu with the cursor
\* on a candidate other than the first
C17_Witness ==
    /\ ConsumedTag(PageTags)
    /\ panicked = "none"
    /\ active
    /\ Len(values) >= 2
    /\ index >= 1
    /\ index < Len(values)
    /\ col_pos < get_cols

-----------------------------------------------------------------------------
(* C18 *)

\* C18: with the column count fixed and n >= 1 candidates, PreviousElement
\* consumed after a NextElement that started on an occupied cell, and
\* NextElement consumed after a PreviousElement that started on one, put the
\* cursor back on that cell; and PreviousElement consumed at (0,0) leaves
\* the cursor on index n - 1, also when the last row is partly filled.
C18_NextPreviousInverse ==
    [][ /\ ( /\ Travelled({"NextElement"})
             /\ ConsumedTag({"PreviousElement"})'
             /\ get_cols' = get_cols )
           => /\ col_pos' = trail[1].col
              /\ row_pos' = trail[1].row
        /\ ( /\ Travelled({"PreviousElement"})
             /\ ConsumedTag({"NextElement"})'
             /\ get_cols' = get_cols )
           => /\ col_pos' = trail[1].col
              /\ row_pos' = trail[1].row
        /\ ( /\ ConsumedTag({"PreviousElement"})'
             /\ Len(values) >= 1
             /\ col_pos = 0
             /\ row_pos = 0 )
           => /\ row_pos' * get_cols + col_pos' = Len(values) - 1
              /\ col_pos' < get_cols
      ]_vars

\* PreviousElement was consumed at (0,0) on a grid whose last row is partly
\* filled, the cursor is on the last candidate, and NextElement is in the slot
C18_Witness ==
    /\ Travelled({"PreviousElement"})
    /\ trail_index = 0
    /\ Len(values) >= 3
    /\ Len(values) % get_cols # 0
    /\ index = Len(values) - 1
    /\ event # None
    /\ event[1].tag = "NextElement"

-----------------------------------------------------------------------------
(* C19 *)

\* the last row of the grid that holds a candidate in column c
LastOccupiedRow(c) ==
    IF (get_rows - 1) * get_cols + c < Len(values)
    THEN get_rows - 1
    ELSE get_rows - 2

\* C19: with the column count fixed and n >= 1 candidates, MoveDown consumed
\* after a MoveUp that started on an occupied cell, and MoveUp consumed after
\* a MoveDown that started on one, put the cursor back on that cell; MoveUp
\* consumed on row 0 leaves the cursor on the last occupied row of its column
\* (rows - 1, or rows - 2 when the last row is short in that column), and
\* MoveDown consumed on that row leaves it on row 0.
C19_UpDownInverse ==
    [][ /\ ( /\ Travelled({"MoveUp"})
             /\ ConsumedTag({"MoveDown"})'
             /\ get_cols' = get_cols )
           => /\ col_pos' = trail[1].col
              /\ row_pos' = trail[1].row
        /\ ( /\ Travelled({"MoveDown"})
             /\ ConsumedTag({"MoveUp"})'
             /\ get_cols' = get_cols )
           => /\ col_pos' = trail[1].col
              /\ row_pos' = trail[1].row
        /\ ( /\ ConsumedTag({"MoveUp"})'
             /\ Len(values) >= 1
             /\ col_pos < get_cols
             /\ index < Len(values)
             /\ row_pos = 0 )
           => /\ col_pos' = col_pos
              /\ row_pos' = LastOccupiedRow(col_pos)
        /\ ( /\ ConsumedTag({"MoveDown"})'
             /\ Len(values) >= 1
             /\ col_pos < get_cols
             /\ index < Len(values)
             /\ row_pos = LastOccupiedRow(col_pos) )
           => /\ col_pos' = col_pos
              /\ row_pos' = 0
      ]_vars

\* MoveUp was consumed on row 0 of a column in which the last row of the grid
\* is empty, the cursor is on row rows - 2, and MoveDown is in the slot
C19_Witness ==
    /\ Travelled({"MoveUp"})
    /\ trail[1].row = 0
    /\ col_pos = trail[1].col
    /\ get_rows >= 2
    /\ (get_rows - 1) * get_cols + col_pos >= Len(values)
    /\ row_pos = get_rows - 2
    /\ event # None
    /\ event[1].tag = "MoveDown"

-----------------------------------------------------------------------------
(* C20 *)

\* C20: delivering Activate sets the activation flag, and no delivery moves
\* the cursor, changes the candidates or calls the completer; the cursor
\* reset and the re-query happen when a refresh consumes the Activate.  So
\* when Activate(false) is delivered and, before a refresh, replaced by an
\* event other than Deactivate, the menu is active with the cursor and the
\* candidates it had before the activation, and the slot holds the later
\* event.
C20_ActivationSplit ==
    [][ /\ last'.op = "menu_event"
           => /\ UNCHANGED <<col_pos, row_pos, values>>
              /\ last'.completer = None
              /\ last'.event[1].tag = "Activate" => active'
        /\ ConsumedTag({"Activate"})'
           => /\ col_pos' = 0
              /\ row_pos' = 0
              /\ ~last'.event[1].updated
                    => /\ last'.completer # None
                       /\ values' = last'.completer[1].ret
        /\ ( /\ last.op = "menu_event"
             /\ last.event = Some([tag |-> "Activate", updated |-> FALSE])
             /\ event = last.event
             /\ last'.op = "menu_event"
             /\ last'.event # last.event
             /\ last'.event[1].tag # "Deactivate" )
           => /\ active'
              /\ UNCHANGED <<col_pos, row_pos, values>>
              /\ last'.dropped
              /\ event' = last'.event
      ]_vars

\* no event was consumed yet (the layout was never sized), the menu is
\* active, so Activate was delivered, and a navigation event has replaced it
\* in the slot; the candidates are those of an earlier update_values
C20_Witness ==
    /\ active
    /\ panicked = "none"
    /\ working_details = [columns |-> 0, col_width |-> 0, col_padding |-> 0]
    /\ last.op = "menu_event"
    /\ last.dropped
    /\ event # None
    /\ event[1].tag \in NavigationTags
    /\ Len(values) >= 2

====
